---------------------------- MODULE Spec2Model ----------------------------
(***************************************************************************)
(* InteractiveAnalysisService (src/src/analysis/interactive_analyzer.py):  *)
(* the session store (in-process cache over Redis with a TTL), the         *)
(* process_query handler and the converse loop with its thread-pool tool   *)
(* dispatch.  Request threads are the processes of the model; a thread's   *)
(* local variables are the fields of loc[p].                               *)
(***************************************************************************)
EXTENDS Integers, Sequences, FiniteSets, TLC

(* ------------------------------ bounds -------------------------------- *)

\* request threads that may run handlers at the same time
NumProcs == 2
\* create_session calls in one behaviour
MaxCreates == 2
\* create_session calls in a behaviour that also has process_query calls
MaxCreatesServing == 1
\* close_session calls on one session id between two writes of it
MaxCloses == 2
\* process_query / converse calls in one behaviour
MaxCalls == 2
\* clock readings after the first: the clock advances in half-TTL steps
MaxTicks == 2
\* tool requests in one model response
MaxBatch == 2
\* tool-use responses of the model in one converse call
MaxRounds == 2
\* largest max_workers the service is constructed with
MaxPool == 2
\* turns in the history of a session that a query is asked on
MaxHistory == 3

(* ------------------------- program constants -------------------------- *)

\* def __init__(self, max_workers=10, timeout=300)
DefaultMaxWorkers == 10

\* setex(..., 3600, ...): the expiry of a session key, in seconds
SESSION_TTL == 3600

Procs == 1..NumProcs
TickSeconds == SESSION_TTL \div 2
Times == {k * TickSeconds : k \in 0..MaxTicks}

\* a dict key that is absent or a None, where the value would be a string
Missing == "<missing>"
\* None, where the value would be a reference or a thread
None == 0
\* datetime.now().isoformat()
Iso(t) == <<"iso", t>>

\* the ticker as the request gives it, in either case
Tickers == {"AAPL", "aapl"}
\* current_analysis payloads; a value is <<python type, content>>
Analyses == {[pattern_type |-> <<"str", "X">>]}
ToolNames == {"get_live_oi_data", "get_market_data"}
\* texts the model endpoint can answer with
ModelTexts == {"answer", "Session not found"}
\* json.dumps({"error": "Tool execution timed out"})
TimeoutPayload == "{error: Tool execution timed out}"

(* ------------------------------ helpers ------------------------------- *)

\* str.lower() / str.upper() on the ticker symbols of the model
Lower(t) == CASE t = "AAPL" -> "aapl" [] t = "aapl" -> "aapl" [] OTHER -> t
Upper(t) == CASE t = "AAPL" -> "AAPL" [] t = "aapl" -> "AAPL" [] OTHER -> t

\* f"oi_{ticker.lower()}_{int(time.time())}"
SessionId(ticker, now) == <<"oi", Lower(ticker), now>>

SessionIds == {SessionId(t, c) : t \in Tickers, c \in Times}

\* a record read back without the time of its creation
loads_without_created_at(data) == [data EXCEPT !.created_at = <<>>]

\* json.dumps(context, default=str) and json.loads on the values a context
\* holds: a tuple is written as a JSON array and read back as a list
JsonEnc(v) == IF v[1] = "tuple" THEN <<"list", v[2]>> ELSE v
json_dumps(context) ==
    [session_id |-> context.session_id,
     ticker |-> context.ticker,
     created_at |-> context.created_at,
     current_analysis |-> [k \in DOMAIN context.current_analysis |->
                              JsonEnc(context.current_analysis[k])],
     conversation_history |-> context.conversation_history]
json_loads(data) == data

Range(s) == {s[i] : i \in DOMAIN s}

VARIABLES
    clock,            \* time.time(), in seconds
    max_workers,      \* self.max_workers
    active_sessions,  \* self.active_sessions: session id -> reference
    heap,             \* the context dicts, by reference
    redis,            \* the session:<id> keys: id -> [data, expires]
    pc,               \* where each request thread is
    loc,              \* each request thread's local variables
    nCreates,         \* create_session calls made so far
    nCalls,           \* process_query / converse calls made so far
    written,          \* history: id -> time of the last durable write
    completed,        \* history: id -> turns of the calls that succeeded
    hadFailure,       \* history: id -> whether a call on it failed
    lastSaver,        \* history: id -> the thread that saved it last
    created,          \* history: id -> arguments of the creates that returned it
    closes            \* history: id -> close_session calls since its last write

vars == <<clock, max_workers, active_sessions, heap, redis, pc, loc,
          nCreates, nCalls, written, completed, hadFailure, lastSaver,
          created, closes>>

storeVars == <<active_sessions, heap, redis>>
histVars == <<written, completed, hadFailure, lastSaver, created, closes>>

Refs == 1..(MaxCreates + NumProcs)

(* --------------------------- thread locals ---------------------------- *)

NoResponse == [stopReason |-> Missing,
               message |-> [role |-> Missing, content |-> <<>>]]
NoTurn == [user_message |-> Missing, assistant_message |-> Missing,
           timestamp |-> <<>>, tool_calls |-> <<>>]

IdleLoc ==
    [caller |-> Missing,          \* process_query or a direct converse call
     session_id |-> <<>>,
     user_query |-> Missing,
     context |-> None,            \* reference to the context dict
     tool_callback |-> Missing,
     formatted_messages |-> <<>>,
     current_response |-> NoResponse,
     tool_calls_made |-> <<>>,
     tool_calls |-> <<>>,         \* the batch: (name, params, tool_id)
     futures |-> <<>>,            \* the future of each batch entry
     yielded |-> {},              \* futures as_completed has handed out
     tool_results |-> <<>>,
     timed_out |-> FALSE,         \* the TimeoutError handler ran
     requested |-> <<>>,          \* the toolUse blocks the model has sent
     rounds |-> 0,                \* tool-use responses so far
     model_calls |-> 0,           \* bedrock_client.converse calls so far
     base |-> 0,                  \* len(tool_calls_made) before the batch
     mutations |-> <<>>,          \* writes to each tool_calls_made entry
     failed |-> FALSE,            \* a model call raised
     outcome |-> Missing,
     hist0 |-> <<>>,              \* the history get_session returned
     cache_hit |-> FALSE,         \* get_session found the id in the cache
     redis_reads |-> <<>>,        \* what each redis_client.get of the call gave
     system_message |-> <<>>,     \* the system text sent with the model calls
     sent_messages |-> <<>>,      \* the messages the latest model call sent
     t_load |-> 0,                \* clock when get_session was called
     response |-> <<>>,           \* what converse returned
     turn |-> NoTurn,             \* the turn process_query appends
     result |-> <<>>]             \* the returned (text, tool calls)

(* ------------------------------ the heap ------------------------------ *)

\* an assignment that sets every key
put_everywhere(f, k, v) == [x \in DOMAIN f \cup {k} |-> v]

\* d[k] = v
Put(f, k, v) == [x \in DOMAIN f \cup {k} |-> IF x = k THEN v ELSE f[x]]
\* nothing deleted
del_nothing(f, k) == f
\* everything deleted
del_all(f, k) == << >>
\* del d[k] where k is in d, and redis_client.delete(k)
Del(f, k) == [x \in DOMAIN f \ {k} |-> f[x]]

\* the context dicts some name still refers to; the others are garbage
NoObj == [session_id |-> <<>>, ticker |-> Missing, created_at |-> <<>>,
          current_analysis |-> << >>, conversation_history |-> <<>>]
IsFree(h, r) == h[r].session_id = <<>>
Live(as, lc) == ({as[k] : k \in DOMAIN as} \cup {lc[p].context : p \in Procs})
                    \ {None}
Collect(h, as, lc) == [r \in Refs |-> IF r \in Live(as, lc) THEN h[r] ELSE NoObj]
NewRef == CHOOSE r \in Refs : IsFree(heap, r)
                              /\ \A q \in Refs : IsFree(heap, q) => r <= q

\* a read that finds no key
redis_get_nothing(k) == <<>>
\* redis_client.get: an expired key is gone
RedisGet(k) == IF k \in DOMAIN redis /\ clock < redis[k].expires
               THEN <<redis[k].data>> ELSE <<>>
\* a write that leaves the expiry of a key that exists as it was
setex_keeping_expiry(k, ttl, value) ==
    Put(redis, k, [data |-> value,
                   expires |-> IF k \in DOMAIN redis THEN redis[k].expires
                               ELSE clock + ttl])
\* redis_client.setex(key, 3600, value)
RedisSetex(k, ttl, value) == Put(redis, k, [data |-> value, expires |-> clock + ttl])

InFlight(p) == pc[p] \notin {"idle", "done"}

(* --------------------------- session store ---------------------------- *)

NewContext(ticker, current_analysis) ==
    [session_id |-> SessionId(ticker, clock),
     ticker |-> Upper(ticker),
     created_at |-> Iso(clock),
     current_analysis |-> current_analysis,
     conversation_history |-> <<>>]

create_session(ticker, current_analysis) ==
    LET session_id == SessionId(ticker, clock)
        r == NewRef
        context == NewContext(ticker, current_analysis)
    IN  /\ nCreates < MaxCreates
        /\ nCreates' = nCreates + 1
        /\ active_sessions' = Put(active_sessions, session_id, r)
        /\ heap' = Collect([heap EXCEPT ![r] = context], active_sessions', loc)
        /\ redis' = RedisSetex(session_id, SESSION_TTL, json_dumps(context))
        /\ written' = [written EXCEPT ![session_id] = clock]
        /\ completed' = [completed EXCEPT ![session_id] = <<>>]
        /\ hadFailure' = [hadFailure EXCEPT ![session_id] = FALSE]
        /\ lastSaver' = [lastSaver EXCEPT ![session_id] = None]
        /\ created' = [created EXCEPT ![session_id] =
                          Append(@, [ticker |-> ticker,
                                     current_analysis |-> current_analysis,
                                     at |-> clock])]
        /\ closes' = [closes EXCEPT ![session_id] = 0]
        /\ UNCHANGED <<clock, max_workers, pc, loc, nCalls>>

\* lines 55-62: redis_client.setex raises (Redis cannot be reached) after
\* line 55 has put the context in the cache; create_session has no handler
\* and the exception reaches the caller
create_session_raises(ticker, current_analysis) ==
    LET session_id == SessionId(ticker, clock)
        r == NewRef
        context == NewContext(ticker, current_analysis)
    IN  /\ nCreates < MaxCreates
        /\ nCreates' = nCreates + 1
        /\ active_sessions' = Put(active_sessions, session_id, r)
        /\ heap' = Collect([heap EXCEPT ![r] = context], active_sessions', loc)
        /\ UNCHANGED <<clock, max_workers, redis, pc, loc, nCalls, histVars>>

\* lines 610-616: the id is taken out of the cache when it is there, and
\* its key deleted from Redis, where deleting an absent key is no error
close_session(session_id) ==
    /\ closes[session_id] < MaxCloses
    /\ active_sessions' = Del(active_sessions, session_id)
    /\ heap' = Collect(heap, active_sessions', loc)
    /\ redis' = Del(redis, session_id)
    /\ lastSaver' = [lastSaver EXCEPT ![session_id] = None]
    /\ closes' = [closes EXCEPT ![session_id] = @ + 1]
    /\ UNCHANGED <<clock, max_workers, pc, loc, nCreates, nCalls,
                   written, completed, hadFailure, created>>

\* time passes; Redis drops the keys whose expiry has been reached
Tick ==
    /\ clock < MaxTicks * TickSeconds
    /\ clock' = clock + TickSeconds
    /\ redis' = [k \in {x \in DOMAIN redis : clock' < redis[x].expires} |-> redis[k]]
    /\ UNCHANGED <<max_workers, active_sessions, heap, pc, loc,
                   nCreates, nCalls, histVars>>

\* the web service is started again: a new InteractiveAnalysisService over
\* the same Redis, with an empty active_sessions and no request in progress
Restart ==
    /\ active_sessions # << >>
    /\ active_sessions' = << >>
    /\ heap' = [r \in Refs |-> NoObj]
    /\ pc' = [p \in Procs |-> "idle"]
    /\ loc' = [p \in Procs |-> IdleLoc]
    /\ UNCHANGED <<clock, max_workers, redis, nCreates, nCalls, histVars>>

(* --------------------------- process_query ---------------------------- *)

\* the text of the n-th query of a behaviour: every call asks its own
Query(n) == "q" \o ToString(n)

\* _build_system_message: the fields of current_analysis it quotes
build_system_message(current_analysis) ==
    [role |-> "system", content |-> <<"system", current_analysis>>]

\* the messages of the last turn only
history_last_only(conversation_history) ==
    IF conversation_history = <<>> THEN <<>>
    ELSE LET turn == conversation_history[Len(conversation_history)]
         IN  <<[role |-> "user", content |-> turn.user_message],
               [role |-> "assistant", content |-> turn.assistant_message]>>

\* _build_messages, lines 379-390: a user and an assistant message for
\* every turn of the history, in its order
RECURSIVE HistoryMessages(_)
HistoryMessages(conversation_history) ==
    IF conversation_history = <<>> THEN <<>>
    ELSE <<[role |-> "user", content |-> Head(conversation_history).user_message],
           [role |-> "assistant",
            content |-> Head(conversation_history).assistant_message]>>
         \o HistoryMessages(Tail(conversation_history))

build_messages(user_query, current_analysis, conversation_history) ==
    <<build_system_message(current_analysis)>>
    \o HistoryMessages(conversation_history)
    \o <<[role |-> "user", content |-> user_query]>>

\* converse, lines 151-174: the system message is taken off and every
\* string content becomes one text block
FormatMessages(messages) ==
    LET rest == IF messages # <<>> /\ messages[1].role = "system"
                THEN Tail(messages) ELSE messages
    IN  [i \in 1..Len(rest) |->
            [role |-> rest[i].role, content |-> <<[text |-> rest[i].content]>>]]

\* converse, lines 148-153: the content of a leading system message, which
\* goes to the endpoint as its `system` argument
SystemOf(messages) ==
    IF messages # <<>> /\ messages[1].role = "system"
    THEN <<messages[1].content>> ELSE <<>>

\* process_query is called
StartProcessQuery(p, session_id) ==
    /\ pc[p] = "idle"
    /\ nCalls < MaxCalls
    /\ nCalls' = nCalls + 1
    /\ loc' = [loc EXCEPT ![p] = [IdleLoc EXCEPT !.caller = "process_query",
                                                 !.session_id = session_id,
                                                 !.user_query = Query(nCalls + 1),
                                                 !.t_load = clock]]
    /\ pc' = [pc EXCEPT ![p] = "get_session"]
    /\ UNCHANGED <<clock, max_workers, storeVars, nCreates, histVars>>

\* get_session is called by the session pages of the web service
StartGetSession(p, session_id) ==
    /\ pc[p] = "idle"
    /\ nCalls < MaxCalls
    /\ nCalls' = nCalls + 1
    /\ loc' = [loc EXCEPT ![p] = [IdleLoc EXCEPT !.caller = "get_session",
                                                 !.session_id = session_id,
                                                 !.t_load = clock]]
    /\ pc' = [pc EXCEPT ![p] = "get_session"]
    /\ UNCHANGED <<clock, max_workers, storeVars, nCreates, histVars>>

\* get_session returns to the web service: the context, or None
GetSessionReturns(p) ==
    /\ pc[p] = "got_session"
    /\ loc[p].caller = "get_session"
    /\ loc' = [loc EXCEPT ![p] =
                  [@ EXCEPT !.result = <<loc[p].context>>,
                            !.outcome = IF loc[p].context = None THEN "not_found"
                                        ELSE "found"]]
    /\ pc' = [pc EXCEPT ![p] = "done"]
    /\ UNCHANGED <<clock, max_workers, storeVars, nCreates, nCalls, histVars>>

\* get_session, lines 69-70: the cache holds the session
GetSessionCached(p) ==
    LET l == loc[p] IN
    /\ pc[p] = "get_session"
    /\ l.session_id \in DOMAIN active_sessions
    /\ loc' = [loc EXCEPT ![p] =
                  [l EXCEPT !.context = active_sessions[l.session_id],
                            !.cache_hit = TRUE,
                            !.hist0 = heap[active_sessions[l.session_id]]
                                          .conversation_history]]
    /\ pc' = [pc EXCEPT ![p] = "got_session"]
    /\ UNCHANGED <<clock, max_workers, storeVars, nCreates, nCalls, histVars>>

\* get_session, line 69: the cache does not hold the session
GetSessionMiss(p) ==
    /\ pc[p] = "get_session"
    /\ loc[p].session_id \notin DOMAIN active_sessions
    /\ pc' = [pc EXCEPT ![p] = "redis_get"]
    /\ UNCHANGED <<clock, max_workers, storeVars, loc, nCreates, nCalls, histVars>>

\* a load that puts an empty context in the cache for whatever id it is
\* asked, and reports that it found none
load_caching_the_miss(p) ==
    /\ pc[p] = "redis_get"
    /\ active_sessions' = Put(active_sessions, loc[p].session_id, NewRef)
    /\ heap' = [heap EXCEPT ![NewRef] =
                   [NoObj EXCEPT !.session_id = loc[p].session_id]]
    /\ pc' = [pc EXCEPT ![p] = "got_session"]
    /\ UNCHANGED <<clock, max_workers, redis, loc, nCreates, nCalls, histVars>>

\* get_session, lines 73-79: the durable read, and the cache filled on a hit
GetSessionRedis(p) ==
    LET l == loc[p]
        session_data == RedisGet(l.session_id)
        r == NewRef
    IN  /\ pc[p] = "redis_get"
        /\ IF session_data # <<>>
           THEN /\ active_sessions' = Put(active_sessions, l.session_id, r)
                /\ loc' = [loc EXCEPT ![p] =
                              [l EXCEPT !.context = r,
                                        !.redis_reads = Append(@, session_data),
                                        !.hist0 = json_loads(session_data[1])
                                                      .conversation_history]]
                /\ heap' = Collect([heap EXCEPT ![r] = json_loads(session_data[1])],
                                   active_sessions', loc')
           ELSE /\ loc' = [loc EXCEPT ![p].redis_reads = Append(@, session_data)]
                /\ UNCHANGED <<active_sessions, heap>>
        /\ pc' = [pc EXCEPT ![p] = "got_session"]
        /\ UNCHANGED <<clock, max_workers, redis, nCreates, nCalls, histVars>>

\* process_query, lines 93-94
SessionNotFound(p) ==
    /\ pc[p] = "got_session"
    /\ loc[p].caller = "process_query"
    /\ loc[p].context = None
    /\ loc' = [loc EXCEPT ![p] = [@ EXCEPT !.result = <<"Session not found", <<>>>>,
                                          !.outcome = "not_found"]]
    /\ pc' = [pc EXCEPT ![p] = "done"]
    /\ UNCHANGED <<clock, max_workers, storeVars, nCreates, nCalls, histVars>>

\* process_query, lines 96-112: the messages are built and converse is
\* entered with execute_tool as the tool callback
EnterConverse(p) ==
    LET l == loc[p]
        context == heap[l.context]
        messages == build_messages(l.user_query, context.current_analysis,
                                   context.conversation_history)
    IN  /\ pc[p] = "got_session"
        /\ l.caller = "process_query"
        /\ l.context # None
        /\ loc' = [loc EXCEPT ![p] =
                      [l EXCEPT !.tool_callback = "execute_tool",
                                !.system_message = SystemOf(messages),
                                !.formatted_messages =
                                    FormatMessages(messages)]]
        /\ pc' = [pc EXCEPT ![p] = "ask_model"]
        /\ UNCHANGED <<clock, max_workers, storeVars, nCreates, nCalls, histVars>>

\* converse is called by another caller than process_query, with a tool
\* callback of the caller's
StartConverse(p, tool_callback) ==
    /\ pc[p] = "idle"
    /\ nCalls < MaxCalls
    /\ nCalls' = nCalls + 1
    /\ loc' = [loc EXCEPT ![p] =
                  [IdleLoc EXCEPT !.caller = "direct",
                                  !.user_query = Query(nCalls + 1),
                                  !.tool_callback = tool_callback,
                                  !.formatted_messages = FormatMessages(
                                      <<[role |-> "user",
                                         content |-> Query(nCalls + 1)]>>)]]
    /\ pc' = [pc EXCEPT ![p] = "ask_model"]
    /\ UNCHANGED <<clock, max_workers, storeVars, nCreates, histVars>>

(* ------------------------------ converse ------------------------------ *)

\* what bedrock_client.converse can return: a final answer, or a message
\* asking for the tools `names`, whose toolUseIds the endpoint makes unique
\* the "input" of a toolUse block: a dict (its items), or a string
DictInput(items) == [kind |-> "dict", items |-> items, text |-> ""]
StrInput(text) == [kind |-> "str", items |-> {}, text |-> text]
ToolInputs == {DictInput({<<"ticker", "AAPL">>}),
               StrInput("{\"ticker\": \"AAPL\"}"),
               StrInput("not json")}

\* json.loads of the input strings above; <<>>: JSONDecodeError is raised
JsonObjects == ("{\"ticker\": \"AAPL\"}" :> {<<"ticker", "AAPL">>})
parse_json(text) == IF text \in DOMAIN JsonObjects THEN <<JsonObjects[text]>>
                    ELSE <<>>

\* a string input that is used as it came, decoded or not
parameters_undecoded(input) ==
    IF input.kind = "str" THEN {<<"raw", input.text>>} ELSE input.items

\* lines 204-211: a string input is decoded, and replaced by {} when it is
\* not JSON
tool_parameters(input) ==
    IF input.kind = "str"
    THEN IF parse_json(input.text) # <<>> THEN parse_json(input.text)[1] ELSE {}
    ELSE input.items

FinalResponse(text) ==
    [stopReason |-> "end_turn",
     message |-> [role |-> "assistant", content |-> <<[text |-> text]>>]]
ToolUseResponseWith(texts, names, inputs, call) ==
    [stopReason |-> "tool_use",
     message |-> [role |-> "assistant",
                  content |-> [i \in 1..Len(texts) |-> [text |-> texts[i]]]
                     \o [i \in 1..Len(names) |->
                            [toolUse |-> [name |-> names[i],
                                          toolUseId |-> <<"tooluse", call, i>>,
                                          input |-> inputs[i]]]]]]
ToolUseResponse(texts, names, call) ==
    ToolUseResponseWith(texts, names,
                        [i \in 1..Len(names) |-> DictInput({<<"ticker", "AAPL">>})],
                        call)

Batches(n) == UNION {[1..k -> ToolNames] : k \in 0..n}

IsToolUse(content) == "toolUse" \in DOMAIN content
IsText(content) == "text" \in DOMAIN content

\* lines 316-322: the text blocks of the response, concatenated
RECURSIVE ResponseText(_)
ResponseText(content) ==
    IF content = <<>> THEN ""
    ELSE (IF IsText(Head(content)) THEN Head(content).text ELSE "")
         \o ResponseText(Tail(content))

ErrorText == "I encountered an error processing your request: model error"

\* lines 315-325: converse returns the text and the tool calls made
ReturnFromConverse(l) ==
    [l EXCEPT !.response = <<ResponseText(l.current_response.message.content),
                             l.tool_calls_made>>]

\* lines 216-220: the entry that tracks a requested tool call
NewToolCall(tool_use, now) ==
    [name |-> tool_use.name,
     parameters |-> tool_parameters(tool_use.input),
     started_at |-> Iso(now),
     completed_at |-> <<>>,
     status |-> Missing,
     error |-> Missing]

\* lines 193-234: the tool request message is appended, every toolUse block
\* is tracked and its call submitted to a new ThreadPoolExecutor
CollectToolCalls(l, now) ==
    LET tool_message == l.current_response.message
        uses == SelectSeq(tool_message.content, IsToolUse)
    IN  [l EXCEPT !.formatted_messages = Append(@, tool_message),
                  !.tool_calls = [i \in 1..Len(uses) |->
                                     [name |-> uses[i].toolUse.name,
                                      params |-> tool_parameters(
                                                     uses[i].toolUse.input),
                                      tool_id |-> uses[i].toolUse.toolUseId]],
                  !.base = Len(l.tool_calls_made),
                  !.tool_calls_made = @ \o [i \in 1..Len(uses) |->
                                               NewToolCall(uses[i].toolUse, now)],
                  !.mutations = @ \o [i \in 1..Len(uses) |-> 0],
                  !.futures = [i \in 1..Len(uses) |->
                                  [state |-> "pending", value |-> Missing]],
                  !.yielded = {},
                  !.tool_results = <<>>,
                  !.timed_out = FALSE,
                  !.requested = @ \o [i \in 1..Len(uses) |-> uses[i].toolUse],
                  !.rounds = @ + 1]

\* lines 294-313: the results are sent back as one user message, or the
\* loop is left when there are none
AfterBatch(l) ==
    IF l.tool_results # <<>>
    THEN [l EXCEPT !.formatted_messages =
                       Append(@, [role |-> "user", content |-> l.tool_results])]
    ELSE ReturnFromConverse(l)
\* the model asked again whatever the batch gave
ask_again(l) == "ask_model"
PcAfterBatch(l) == IF l.tool_results # <<>> THEN "ask_model" ELSE "after_converse"

\* bedrock_client.converse returns (lines 179-191 and 302-310)
ModelAnswers(p, response) ==
    LET l == [loc[p] EXCEPT !.current_response = response,
                            !.sent_messages = loc[p].formatted_messages,
                            !.model_calls = @ + 1]
        c == CollectToolCalls(l, clock)
    IN  /\ pc[p] = "ask_model"
        /\ response.stopReason = "tool_use" => l.rounds < MaxRounds
        /\ IF response.stopReason = "tool_use"
           THEN IF c.tool_calls # <<>>
                THEN /\ loc' = [loc EXCEPT ![p] = c]
                     /\ pc' = [pc EXCEPT ![p] = "as_completed"]
                ELSE /\ loc' = [loc EXCEPT ![p] = AfterBatch(c)]
                     /\ pc' = [pc EXCEPT ![p] = PcAfterBatch(c)]
           ELSE /\ loc' = [loc EXCEPT ![p] = ReturnFromConverse(l)]
                /\ pc' = [pc EXCEPT ![p] = "after_converse"]
        /\ UNCHANGED <<clock, max_workers, storeVars, nCreates, nCalls, histVars>>

\* bedrock_client.converse raises: the handler of lines 327-329 returns
ModelRaises(p) ==
    /\ pc[p] = "ask_model"
    /\ loc' = [loc EXCEPT ![p] =
                  [@ EXCEPT !.model_calls = @ + 1,
                            !.sent_messages = loc[p].formatted_messages,
                            !.failed = TRUE,
                            !.response = <<ErrorText, loc[p].tool_calls_made>>]]
    /\ pc' = [pc EXCEPT ![p] = "after_converse"]
    /\ UNCHANGED <<clock, max_workers, storeVars, nCreates, nCalls, histVars>>

(* --------------------------- the tool calls --------------------------- *)

\* no call counted as running
running_none(l) == {}
\* the calls of the batch a pool thread is executing
Running(l) == {i \in DOMAIN l.futures : l.futures[i].state = "running"}
Done(l) == {i \in DOMAIN l.futures :
               l.futures[i].state \in {"returned", "raised", "cancelled"}}

\* what a future holds when the tool function is the callback itself: its
\* exception when it raises or when there is no such tool
tool_called_directly(tool_name, behaviour) ==
    IF tool_name \notin ToolNames \/ behaviour = "raises"
    THEN [state |-> "raised", value |-> "boom"]
    ELSE [state |-> "returned", value |-> "data"]

\* execute_tool, lines 331-360, as the future of its call ends: it returns
\* the tool's result, an error payload for a name it does not know (lines
\* 341-344), and an error payload when the tool raises (lines 356-360)
execute_tool(tool_name, behaviour) ==
    IF tool_name \notin ToolNames
    THEN [state |-> "returned",
          value |-> "{error: Unknown tool: " \o tool_name \o "}"]
    ELSE IF behaviour = "raises"
         THEN [state |-> "returned",
               value |-> "{error: Tool execution failed: boom}"]
         ELSE [state |-> "returned", value |-> "data"]

\* a worker thread of the pool takes the oldest queued call
ToolStart(p, i) ==
    LET l == loc[p] IN
    /\ pc[p] \in {"as_completed", "shutdown"}
    /\ i \in DOMAIN l.futures
    /\ l.futures[i].state = "pending"
    /\ \A j \in 1..(i - 1) : l.futures[j].state # "pending"
    /\ Cardinality(Running(l)) < max_workers
    /\ loc' = [loc EXCEPT ![p].futures[i].state = "running"]
    /\ UNCHANGED <<clock, max_workers, storeVars, pc, nCreates, nCalls, histVars>>

\* the tool callback returns its result
ToolReturns(p, i) ==
    LET l == loc[p] IN
    /\ pc[p] \in {"as_completed", "shutdown"}
    /\ i \in DOMAIN l.futures
    /\ l.futures[i].state = "running"
    /\ loc' = [loc EXCEPT ![p].futures[i] =
                  IF l.tool_callback = "execute_tool"
                  THEN execute_tool(l.tool_calls[i].name, "returns")
                  ELSE [state |-> "returned", value |-> "data"]]
    /\ UNCHANGED <<clock, max_workers, storeVars, pc, nCreates, nCalls, histVars>>

\* the tool fails: execute_tool (lines 356-360) catches the exception and
\* returns an error payload, another callback lets it reach the future
ToolRaises(p, i) ==
    LET l == loc[p] IN
    /\ pc[p] \in {"as_completed", "shutdown"}
    /\ i \in DOMAIN l.futures
    /\ l.futures[i].state = "running"
    /\ loc' = [loc EXCEPT ![p].futures[i] =
                  IF l.tool_callback = "execute_tool"
                  THEN execute_tool(l.tool_calls[i].name, "raises")
                  ELSE [state |-> "raised", value |-> "boom"]]
    /\ UNCHANGED <<clock, max_workers, storeVars, pc, nCreates, nCalls, histVars>>

(* ------------------------ the as_completed loop ----------------------- *)

\* lines 250-254 and 274-279: the first entry of tool_calls_made with this
\* name is the one updated (0: there is none)
FirstNamed(tool_calls_made, name) ==
    IF \E k \in DOMAIN tool_calls_made : tool_calls_made[k].name = name
    THEN CHOOSE k \in DOMAIN tool_calls_made :
             /\ tool_calls_made[k].name = name
             /\ \A j \in 1..(k - 1) : tool_calls_made[j].name # name
    ELSE 0

\* lines 250-254: a completed call is recorded
MarkSuccess(tool_calls_made, name, now) ==
    LET k == FirstNamed(tool_calls_made, name) IN
    IF k = 0 THEN tool_calls_made
    ELSE [tool_calls_made EXCEPT ![k].completed_at = Iso(now),
                                 ![k].status = "success"]

\* lines 274-279: a call that raised is recorded
MarkError(tool_calls_made, name, now, exc) ==
    LET k == FirstNamed(tool_calls_made, name) IN
    IF k = 0 THEN tool_calls_made
    ELSE [tool_calls_made EXCEPT ![k].completed_at = Iso(now),
                                 ![k].status = "error",
                                 ![k].error = exc]

ToolResult(tool_id, text) ==
    [toolResult |-> [toolUseId |-> tool_id, content |-> <<[text |-> text]>>]]

\* lines 238-279: as_completed hands out a finished future and the loop
\* body records its outcome; after the last one the pool is left
Yield(p, i) ==
    LET l == loc[p]
        f == l.futures[i]
        name == l.tool_calls[i].name
        tool_id == l.tool_calls[i].tool_id
        k == FirstNamed(l.tool_calls_made, name)
        m == [l EXCEPT
                !.yielded = @ \cup {i},
                !.tool_calls_made =
                    IF f.state = "returned" THEN MarkSuccess(@, name, clock)
                    ELSE MarkError(@, name, clock, f.value),
                !.mutations = IF k = 0 THEN @ ELSE [@ EXCEPT ![k] = @ + 1],
                !.tool_results =
                    IF f.state = "returned"
                    THEN Append(@, ToolResult(tool_id, f.value))
                    ELSE Append(@, ToolResult(tool_id,
                             "{error: Tool execution failed: " \o f.value \o "}"))]
    IN  /\ pc[p] = "as_completed"
        /\ i \in DOMAIN l.futures
        /\ i \notin l.yielded
        /\ f.state \in {"returned", "raised"}
        /\ IF m.yielded = DOMAIN l.futures
           THEN /\ loc' = [loc EXCEPT ![p] = AfterBatch(m)]
                /\ pc' = [pc EXCEPT ![p] = PcAfterBatch(m)]
           ELSE /\ loc' = [loc EXCEPT ![p] = m]
                /\ pc' = pc
        /\ UNCHANGED <<clock, max_workers, storeVars, nCreates, nCalls, histVars>>

\* lines 283-292: the results the TimeoutError handler adds, one for each
\* future that is not done, in submission order
RECURSIVE TimeoutResults(_, _, _)
TimeoutResults(futures, tool_calls, i) ==
    IF i > Len(futures) THEN <<>>
    ELSE (IF futures[i].state \in {"pending", "running"}
          THEN <<ToolResult(tool_calls[i].tool_id, TimeoutPayload)>>
          ELSE <<>>)
         \o TimeoutResults(futures, tool_calls, i + 1)

\* future.cancel(): only a call that has not started is cancelled
Cancel(f) == IF f.state = "pending" THEN [f EXCEPT !.state = "cancelled"] ELSE f

\* lines 281-292: as_completed raises TimeoutError while futures are still
\* to be handed out; the handler cancels and reports those that are not done
TimeoutFires(p) ==
    LET l == loc[p] IN
    /\ pc[p] = "as_completed"
    /\ l.yielded # DOMAIN l.futures
    /\ loc' = [loc EXCEPT ![p] =
                  [l EXCEPT !.timed_out = TRUE,
                            !.tool_results =
                                @ \o TimeoutResults(l.futures, l.tool_calls, 1),
                            !.futures = [i \in DOMAIN l.futures |->
                                            Cancel(l.futures[i])]]]
    /\ pc' = [pc EXCEPT ![p] = "shutdown"]
    /\ UNCHANGED <<clock, max_workers, storeVars, nCreates, nCalls, histVars>>

\* a pool that is never left
pool_never_left(l) == FALSE
\* a pool that is left without waiting for the running calls
pool_left_at_once(l) == TRUE

\* line 229: leaving the with block is executor.shutdown(wait=True), which
\* returns when no call is running any more
CanLeavePool(l) == Running(l) = {}

ExecutorExit(p) ==
    LET l == loc[p] IN
    /\ pc[p] = "shutdown"
    /\ CanLeavePool(l)
    /\ loc' = [loc EXCEPT ![p] = AfterBatch(l)]
    /\ pc' = [pc EXCEPT ![p] = PcAfterBatch(l)]
    /\ UNCHANGED <<clock, max_workers, storeVars, nCreates, nCalls, histVars>>

(* ------------------------ the end of the call ------------------------- *)

\* converse returns to a caller other than process_query
ConverseReturns(p) ==
    /\ pc[p] = "after_converse"
    /\ loc[p].caller = "direct"
    /\ loc' = [loc EXCEPT ![p] =
                  [@ EXCEPT !.result = loc[p].response,
                            !.outcome = IF loc[p].failed THEN "model_error"
                                        ELSE "success"]]
    /\ pc' = [pc EXCEPT ![p] = "done"]
    /\ UNCHANGED <<clock, max_workers, storeVars, nCreates, nCalls, histVars>>

\* a turn stored without the tool calls
turn_without_log(l, now) ==
    [user_message |-> l.user_query,
     assistant_message |-> l.response[1],
     timestamp |-> Iso(now),
     tool_calls |-> <<>>]

\* lines 120-126: the turn process_query stores
NewTurn(l, now) ==
    [user_message |-> l.user_query,
     assistant_message |-> l.response[1],
     timestamp |-> Iso(now),
     tool_calls |-> l.response[2]]

\* the turn put in front of the history instead of at its end
append_in_front(conversation_history, turn) == <<turn>> \o conversation_history
\* the turn not added
append_nothing(conversation_history, turn) == conversation_history

\* line 120: context["conversation_history"].append(...)
append(conversation_history, turn) == Append(conversation_history, turn)

\* process_query, lines 113-126: converse has returned and the turn is
\* appended to the history of the context dict
AppendTurn(p) ==
    LET l == loc[p] IN
    /\ pc[p] = "after_converse"
    /\ l.caller = "process_query"
    /\ heap' = [heap EXCEPT ![l.context].conversation_history =
                   append(@, NewTurn(l, clock))]
    /\ loc' = [loc EXCEPT ![p].turn = NewTurn(l, clock)]
    /\ pc' = [pc EXCEPT ![p] = "update_session"]
    /\ UNCHANGED <<clock, max_workers, active_sessions, redis,
                   nCreates, nCalls, histVars>>

\* _update_session, line 603: the context dict is put in the cache
UpdateSessionCache(p) ==
    LET l == loc[p] IN
    /\ pc[p] = "update_session"
    /\ active_sessions' = Put(active_sessions, l.session_id, l.context)
    /\ heap' = Collect(heap, active_sessions', loc)
    /\ closes' = [closes EXCEPT ![l.session_id] = 0]
    /\ pc' = [pc EXCEPT ![p] = "setex"]
    /\ UNCHANGED <<clock, max_workers, redis, loc, nCreates, nCalls,
                   written, completed, hadFailure, lastSaver, created>>

\* _update_session, lines 604-608: the dict as it is now is serialized and
\* written to Redis; process_query then returns (line 131)
UpdateSessionRedis(p) ==
    LET l == loc[p] IN
    /\ pc[p] = "setex"
    /\ redis' = RedisSetex(l.session_id, SESSION_TTL, json_dumps(heap[l.context]))
    /\ loc' = [loc EXCEPT ![p] =
                  [l EXCEPT !.result = l.response,
                            !.outcome = IF l.failed THEN "model_error"
                                        ELSE "success"]]
    /\ pc' = [pc EXCEPT ![p] = "done"]
    /\ written' = [written EXCEPT ![l.session_id] = clock]
    /\ completed' = [completed EXCEPT ![l.session_id] =
                        IF l.failed THEN @ ELSE Append(@, l.turn)]
    /\ hadFailure' = [hadFailure EXCEPT ![l.session_id] = @ \/ l.failed]
    /\ lastSaver' = [lastSaver EXCEPT ![l.session_id] = p]
    /\ closes' = [closes EXCEPT ![l.session_id] = 0]
    /\ UNCHANGED <<clock, max_workers, active_sessions, heap,
                   nCreates, nCalls, created>>

\* the exception of a call that nothing catches reaches the caller of the
\* handler
Raise(l, exc) == [l EXCEPT !.outcome = "raised", !.result = <<exc>>]

\* get_session, line 73: redis_client.get raises (Redis cannot be reached);
\* neither get_session nor process_query (line 92) has a handler around it
GetSessionRaises(p) ==
    /\ pc[p] = "redis_get"
    /\ loc' = [loc EXCEPT ![p] = Raise(@, "redis.ConnectionError")]
    /\ pc' = [pc EXCEPT ![p] = "done"]
    /\ UNCHANGED <<clock, max_workers, storeVars, nCreates, nCalls, histVars>>

\* _update_session, lines 604-608: redis_client.setex raises, after the
\* cache was written; line 129 is outside the try of process_query
UpdateSessionRaises(p) ==
    /\ pc[p] = "setex"
    /\ loc' = [loc EXCEPT ![p] = Raise(@, "redis.ConnectionError")]
    /\ pc' = [pc EXCEPT ![p] = "done"]
    /\ hadFailure' = [hadFailure EXCEPT ![loc[p].session_id] = TRUE]
    /\ UNCHANGED <<clock, max_workers, storeVars, nCreates, nCalls,
                   written, completed, lastSaver, created, closes>>

\* the caller has the result; the thread is free for the next request
Finish(p) ==
    /\ pc[p] = "done"
    /\ pc' = [pc EXCEPT ![p] = "idle"]
    /\ loc' = [loc EXCEPT ![p] = IdleLoc]
    /\ heap' = Collect(heap, active_sessions, loc')
    /\ lastSaver' = [k \in SessionIds |-> IF lastSaver[k] = p THEN None
                                          ELSE lastSaver[k]]
    /\ UNCHANGED <<clock, max_workers, active_sessions, redis, nCreates, nCalls,
                   written, completed, hadFailure, created, closes>>

(* --------------------------- specifications --------------------------- *)

\* the state after InteractiveAnalysisService(max_workers=workers)
Constructed(workers) ==
    /\ clock = 0
    /\ max_workers = workers
    /\ active_sessions = << >>
    /\ heap = [r \in Refs |-> NoObj]
    /\ redis = << >>
    /\ pc = [p \in Procs |-> "idle"]
    /\ loc = [p \in Procs |-> IdleLoc]
    /\ nCreates = 0
    /\ nCalls = 0
    /\ written = [k \in SessionIds |-> 0 - 1]
    /\ completed = [k \in SessionIds |-> <<>>]
    /\ hadFailure = [k \in SessionIds |-> FALSE]
    /\ lastSaver = [k \in SessionIds |-> None]
    /\ created = [k \in SessionIds |-> <<>>]
    /\ closes = [k \in SessionIds |-> 0]

\* the web service constructs it with the defaults
Init == Constructed(DefaultMaxWorkers)
InitConverse == \E workers \in 1..MaxPool : Constructed(workers)

\* the steps of a request thread inside process_query
ProcessStep(p) ==
    \/ GetSessionCached(p)
    \/ GetSessionMiss(p)
    \/ GetSessionRedis(p)
    \/ SessionNotFound(p)
    \/ EnterConverse(p)
    \/ AppendTurn(p)
    \/ UpdateSessionCache(p)
    \/ UpdateSessionRedis(p)
    \/ Finish(p)

\* the model endpoint answers with one of `texts`, or fails
AnswerStep(p, texts) ==
    \/ \E t \in texts : ModelAnswers(p, FinalResponse(t))
    \/ ModelRaises(p)

\* the model endpoint asks for one of `batches`, at most `rounds` times in
\* a call
ToolUseStep(p, batches, rounds) ==
    \E names \in batches :
        /\ loc[p].rounds < rounds
        /\ ModelAnswers(p, ToolUseResponse(<<>>, names, loc[p].model_calls + 1))

\* the steps of the worker threads of the pool and of the request thread
\* that waits for them
ToolStep(p) ==
    \/ \E i \in 1..MaxBatch : ToolStart(p, i)
    \/ \E i \in 1..MaxBatch : ToolReturns(p, i)
    \/ \E i \in 1..MaxBatch : ToolRaises(p, i)
    \/ \E i \in 1..MaxBatch : Yield(p, i)
    \/ TimeoutFires(p)
    \/ ExecutorExit(p)

\* a session is created with the ticker as the analysis pages give it, and
\* sessions that exist are closed
Stored == DOMAIN active_sessions \cup DOMAIN redis
StoreStep ==
    \/ /\ nCreates < MaxCreatesServing
       /\ \E a \in Analyses : create_session("AAPL", a)
    \/ \E k \in Stored : close_session(k)
    \/ Tick
    \/ Restart

\* the service under concurrent requests, with a model that asks for no tool
Next ==
    \/ StoreStep
    \/ \E p \in Procs, k \in SessionIds : StartProcessQuery(p, k)
    \/ \E p \in Procs : ProcessStep(p)
    \/ \E p \in Procs : AnswerStep(p, {"answer"})

Spec == Init /\ [][Next]_vars

\* the service with its operations run one after another, and a model
\* that asks for at most one tool, once in a call
Quiet == \A p \in Procs : ~InFlight(p)

NextSeq ==
    \/ /\ Quiet /\ nCreates < MaxCreatesServing
       /\ \E a \in Analyses : create_session("AAPL", a)
    \/ Quiet /\ \E k \in Stored : close_session(k)
    \/ Quiet /\ Tick
    \/ Restart
    \/ Quiet /\ \E p \in Procs, k \in SessionIds : StartProcessQuery(p, k)
    \/ \E p \in Procs : ProcessStep(p)
    \/ \E p \in Procs : AnswerStep(p, ModelTexts)
    \/ \E p \in Procs : ToolUseStep(p, {<<>>, <<"get_market_data">>}, 1)
    \/ \E p \in Procs : ToolStep(p)

SpecSeq == Init /\ [][NextSeq]_vars

\* the converse loop and its tool dispatch: one call of converse, with
\* execute_tool or a callback that lets exceptions through
NextConverse ==
    \/ nCalls = 0 /\ \E cb \in {"execute_tool", "raising"} : StartConverse(1, cb)
    \/ AnswerStep(1, {"answer"})
    \/ ToolUseStep(1, Batches(MaxBatch), MaxRounds)
    \/ ToolStep(1)
    \/ ConverseReturns(1)
    \/ Finish(1)

SpecConverse == InitConverse /\ [][NextConverse]_vars

\* the session store alone, its operations run one after another: sessions
\* are created, closed (whether they exist or not), expire and are loaded by
\* get_session
GetSessionStep(p) ==
    \/ GetSessionCached(p)
    \/ GetSessionMiss(p)
    \/ GetSessionRedis(p)
    \/ GetSessionReturns(p)
    \/ Finish(p)

NextStore ==
    \/ Quiet /\ \E t \in Tickers, a \in Analyses : create_session(t, a)
    \/ Quiet /\ \E k \in SessionIds : close_session(k)
    \/ Quiet /\ Tick
    \/ Restart
    \/ Quiet /\ \E p \in Procs, k \in SessionIds : StartGetSession(p, k)
    \/ \E p \in Procs : GetSessionStep(p)

SpecStore == Init /\ [][NextStore]_vars

\* converse calls made at the same time by several request threads, each
\* with one batch of one tool call
NextPool ==
    \/ \E p \in Procs : StartConverse(p, "execute_tool")
    \/ \E p \in Procs : AnswerStep(p, {"answer"})
    \/ \E p \in Procs : ToolUseStep(p, {<<"get_market_data">>}, 1)
    \/ \E p \in Procs : ToolStep(p)
    \/ \E p \in Procs : ConverseReturns(p)
    \/ \E p \in Procs : Finish(p)

SpecPool == InitConverse /\ [][NextPool]_vars

\* a query on a session that has a history: the turns earlier calls left
PastTurns ==
    {[user_message |-> "qa", assistant_message |-> "answer a",
      timestamp |-> Iso(0), tool_calls |-> <<>>],
     [user_message |-> "qb", assistant_message |-> "answer b",
      timestamp |-> Iso(0), tool_calls |-> <<>>]}
Histories == UNION {[1..n -> PastTurns] : n \in 0..MaxHistory}

InitMessages ==
    \E conversation_history \in Histories, a \in Analyses :
        LET created_context == NewContext("AAPL", a)
            k == created_context.session_id
            context == [created_context EXCEPT
                           !.conversation_history = conversation_history]
        IN  /\ clock = 0
            /\ max_workers = DefaultMaxWorkers
            /\ active_sessions = (k :> 1)
            /\ heap = [r \in Refs |-> IF r = 1 THEN context ELSE NoObj]
            /\ redis = (k :> [data |-> json_dumps(context),
                              expires |-> SESSION_TTL])
            /\ pc = [p \in Procs |-> "idle"]
            /\ loc = [p \in Procs |-> IdleLoc]
            /\ nCreates = 1
            /\ nCalls = 0
            /\ written = [x \in SessionIds |-> IF x = k THEN 0 ELSE 0 - 1]
            /\ completed = [x \in SessionIds |->
                               IF x = k THEN conversation_history ELSE <<>>]
            /\ hadFailure = [x \in SessionIds |-> FALSE]
            /\ lastSaver = [x \in SessionIds |-> None]
            /\ created = [x \in SessionIds |->
                             IF x = k THEN <<[ticker |-> "AAPL",
                                              current_analysis |-> a,
                                              at |-> 0]>>
                             ELSE <<>>]
            /\ closes = [x \in SessionIds |-> 0]

NextMessages ==
    \/ \E p \in Procs, k \in DOMAIN active_sessions : StartProcessQuery(p, k)
    \/ \E p \in Procs : GetSessionCached(p)
    \/ \E p \in Procs : EnterConverse(p)

SpecMessages == InitMessages /\ [][NextMessages]_vars

\* process_query calls, one at a time, while the model endpoint and Redis
\* can fail
NextFaults ==
    \/ /\ Quiet /\ nCreates < MaxCreatesServing
       /\ \E a \in Analyses : create_session("AAPL", a)
    \/ /\ Quiet /\ nCreates < MaxCreatesServing
       /\ \E a \in Analyses : create_session_raises("AAPL", a)
    \/ Restart
    \/ Quiet /\ \E p \in Procs, k \in SessionIds : StartProcessQuery(p, k)
    \/ \E p \in Procs : ProcessStep(p)
    \/ \E p \in Procs : GetSessionRaises(p)
    \/ \E p \in Procs : UpdateSessionRaises(p)
    \/ \E p \in Procs : AnswerStep(p, {"answer"})

SpecFaults == Init /\ [][NextFaults]_vars

\* one process_query call from its start to its return, with a model that
\* asks for tools in up to MaxRounds rounds
ProcessBatches == {<<>>, <<"get_market_data">>,
                   <<"get_market_data", "get_live_oi_data">>}

ModelStep(p) ==
    \/ AnswerStep(p, {"answer"})
    \/ ToolUseStep(p, ProcessBatches, MaxRounds)

NextProcess ==
    \/ nCreates = 0 /\ \E a \in Analyses : create_session("AAPL", a)
    \/ nCalls = 0 /\ \E k \in SessionIds : StartProcessQuery(1, k)
    \/ ProcessStep(1)
    \/ ModelStep(1)
    \/ ToolStep(1)

SpecProcess == Init /\ [][NextProcess]_vars

\* the request thread and the pool's worker threads keep running, every
\* tool call comes back and the model endpoint answers every call
FairProcess ==
    /\ WF_vars(ProcessStep(1))
    /\ WF_vars(ModelStep(1))
    /\ WF_vars(\E i \in 1..MaxBatch : ToolStart(1, i))
    /\ WF_vars(\E i \in 1..MaxBatch : ToolReturns(1, i) \/ ToolRaises(1, i))
    /\ WF_vars((\E i \in 1..MaxBatch : Yield(1, i))
                  \/ TimeoutFires(1) \/ ExecutorExit(1))

SpecProcessFair == SpecProcess /\ FairProcess

\* one converse call in which the model sends the inputs of its tool
\* requests as dicts or as strings
ParamsStep(p) ==
    \E names \in ProcessBatches \ {<<>>} :
        \E inputs \in [1..Len(names) -> ToolInputs] :
            /\ loc[p].rounds < 1
            /\ ModelAnswers(p, ToolUseResponseWith(<<>>, names, inputs,
                                                   loc[p].model_calls + 1))

NextParams ==
    \/ nCalls = 0 /\ StartConverse(1, "execute_tool")
    \/ AnswerStep(1, {"answer"})
    \/ ParamsStep(1)
    \/ ToolStep(1)
    \/ ConverseReturns(1)
    \/ Finish(1)

SpecParams == Init /\ [][NextParams]_vars

\* two sessions, created one tick apart, and then concurrent process_query,
\* get_session and close_session calls on them
Created == {k \in SessionIds : created[k] # <<>>}

NextTwo ==
    \/ /\ nCreates < MaxCreates
       /\ nCreates = 1 => clock > 0
       /\ \E a \in Analyses : create_session("AAPL", a)
    \/ nCreates = 1 /\ clock = 0 /\ Tick
    \/ /\ nCreates = MaxCreates
       /\ \/ \E k \in Stored : close_session(k)
          \/ \E p \in Procs, k \in Created : StartProcessQuery(p, k)
          \/ \E p \in Procs, k \in Created : StartGetSession(p, k)
    \/ \E p \in Procs : ProcessStep(p)
    \/ \E p \in Procs : GetSessionReturns(p)
    \/ \E p \in Procs : AnswerStep(p, {"answer"})

SpecTwo == Init /\ [][NextTwo]_vars

\* one converse call with a model whose tool-use responses carry text
\* blocks, tool requests, both or neither
ResponseTexts == {<<>>, <<"part one">>, <<"part one", " part two">>}

TextToolUseStep(p) ==
    \E texts \in ResponseTexts, names \in ProcessBatches :
        /\ loc[p].rounds < MaxRounds
        /\ ModelAnswers(p, ToolUseResponse(texts, names, loc[p].model_calls + 1))

NextTexts ==
    \/ nCalls = 0 /\ StartConverse(1, "execute_tool")
    \/ AnswerStep(1, {"answer"})
    \/ TextToolUseStep(1)
    \/ ToolStep(1)
    \/ ConverseReturns(1)
    \/ Finish(1)

SpecTexts == Init /\ [][NextTexts]_vars

\* one process_query call with a model that also asks for a tool
\* execute_tool does not know, once or twice in a batch
UnknownTool == "get_news"
ToolBatches == {<<n>> : n \in ToolNames \cup {UnknownTool}}
                   \cup {<<UnknownTool, UnknownTool>>,
                         <<UnknownTool, "get_market_data">>}

NextTools ==
    \/ nCreates = 0 /\ \E a \in Analyses : create_session("AAPL", a)
    \/ nCalls = 0 /\ \E k \in SessionIds : StartProcessQuery(1, k)
    \/ ProcessStep(1)
    \/ AnswerStep(1, {"answer"})
    \/ ToolUseStep(1, ToolBatches, 1)
    \/ ToolStep(1)

SpecTools == Init /\ [][NextTools]_vars

(* ------------------------------- claims ------------------------------- *)

\* the toolUseIds of a list of toolResult entries, and of the batch
ResultIds(tool_results) ==
    [j \in DOMAIN tool_results |-> tool_results[j].toolResult.toolUseId]
RequestedIds(l) == {l.tool_calls[i].tool_id : i \in DOMAIN l.tool_calls}
CountOf(ids, x) == Cardinality({j \in DOMAIN ids : ids[j] = x})

\* the message converse has just sent with the next model call
LastMessage(l) == l.formatted_messages[Len(l.formatted_messages)]

\* the entry of tool_calls_made that was created for batch entry i
LogEntry(l, i) == l.tool_calls_made[l.base + i]

\* C1: when converse calls the model again after a batch of tool calls, the
\* tool-result message it sends holds exactly one toolResult for each
\* toolUseId of the batch: none missing, none twice, none foreign.
C1_OneResultPerRequest ==
    \A p \in Procs :
        (pc[p] = "ask_model" /\ loc[p].rounds > 0) =>
            LET ids == ResultIds(LastMessage(loc[p]).content) IN
            /\ \A x \in RequestedIds(loc[p]) : CountOf(ids, x) = 1
            /\ \A j \in DOMAIN ids : ids[j] \in RequestedIds(loc[p])

\* C3: every entry of the returned tool log was written exactly once after
\* its creation and has a status in {success, error, timeout} and a
\* completed_at.
C3_LogEntryResolvedOnce ==
    \A p \in Procs :
        pc[p] = "done" =>
            \A k \in DOMAIN loc[p].result[2] :
                /\ loc[p].result[2][k].status \in {"success", "error", "timeout"}
                /\ loc[p].result[2][k].completed_at # <<>>
                /\ loc[p].mutations[k] = 1

\* C5: once the batch timeout has expired and the timed-out calls have been
\* reported, the request thread can leave RUN_TOOLS without waiting for a
\* call that is still running.
C5_ProceedsAfterTimeout ==
    \A p \in Procs : pc[p] = "shutdown" => ENABLED ExecutorExit(p)

HasTimeoutResult(l, i) ==
    \E j \in DOMAIN l.tool_results :
        /\ l.tool_results[j].toolResult.toolUseId = l.tool_calls[i].tool_id
        /\ l.tool_results[j].toolResult.content = <<[text |-> TimeoutPayload]>>

\* C6: in a batch whose timeout expired, a call that got the timeout
\* payload has status timeout in the log, and a call that returned in time
\* has status success.
C6_TimeoutRecorded ==
    \A p \in Procs : \A i \in DOMAIN loc[p].futures :
        loc[p].timed_out =>
            /\ HasTimeoutResult(loc[p], i) => LogEntry(loc[p], i).status = "timeout"
            /\ (i \in loc[p].yielded /\ loc[p].futures[i].state = "returned")
                  => LogEntry(loc[p], i).status = "success"

\* C7: when every call of a batch has finished, a call that raised has
\* status error and the exception message in the log, and a call that
\* returned has status success.
C7_ErrorIsolated ==
    \A p \in Procs : \A i, j \in DOMAIN loc[p].futures :
        (/\ loc[p].yielded = DOMAIN loc[p].futures
         /\ loc[p].futures[i].state = "raised"
         /\ loc[p].futures[j].state = "returned") =>
            /\ LogEntry(loc[p], i).status = "error"
            /\ LogEntry(loc[p], i).error = loc[p].futures[i].value
            /\ LogEntry(loc[p], j).status = "success"

\* the history a tier holds for a session
CachedHistory(k) == heap[active_sessions[k]].conversation_history
DurableHistory(k) == json_loads(redis[k].data).conversation_history

\* C2: when a model call failed during a process_query call, the call
\* returns the error text and the history of the session, in the cache and
\* in Redis, is the one the call found.
C2_FailedCallLeavesHistory ==
    \A p \in Procs :
        (/\ Quiet
         /\ pc[p] = "done"
         /\ loc[p].caller = "process_query"
         /\ loc[p].failed
         /\ lastSaver[loc[p].session_id] = p) =>
            /\ loc[p].result[1] = ErrorText
            /\ loc[p].session_id \in DOMAIN active_sessions
                  => CachedHistory(loc[p].session_id) = loc[p].hist0
            /\ loc[p].session_id \in DOMAIN redis
                  => DurableHistory(loc[p].session_id) = loc[p].hist0

\* C4: a get_session made when the TTL has fully elapsed since the last
\* durable write of the session returns None.
C4_UnreachableAfterTtl ==
    \A p \in Procs :
        (/\ pc[p] = "got_session"
         /\ written[loc[p].session_id] >= 0
         /\ loc[p].t_load >= written[loc[p].session_id] + SESSION_TTL) =>
            loc[p].context = None

\* C8: with the calls run one after another and none of them failed, the
\* history of a session, in either tier, is the sequence of the turns of
\* its successful process_query calls, in call order and each as appended.
C8_HistoryIsTheSuccessfulCalls ==
    \A k \in SessionIds :
        (Quiet /\ ~hadFailure[k]) =>
            /\ k \in DOMAIN active_sessions => CachedHistory(k) = completed[k]
            /\ k \in DOMAIN redis => DurableHistory(k) = completed[k]

C8_TwoCallsDone ==
    \E k \in SessionIds :
        /\ Quiet
        /\ ~hadFailure[k]
        /\ Len(completed[k]) = 2
        /\ k \in DOMAIN active_sessions
        /\ k \in DOMAIN redis
        /\ completed[k][1].user_message # completed[k][2].user_message

HasTurnOf(history, user_query) ==
    \E n \in DOMAIN history : history[n].user_message = user_query

\* two process_query calls on one session that both succeeded, each on a
\* context dict of its own, q loading before p had saved and saving last
Raced(p, q) ==
    /\ p # q
    /\ pc[p] = "done" /\ pc[q] = "done"
    /\ loc[p].outcome = "success" /\ loc[q].outcome = "success"
    /\ loc[p].caller = "process_query" /\ loc[q].caller = "process_query"
    /\ loc[p].session_id = loc[q].session_id
    /\ loc[p].context # loc[q].context
    /\ ~HasTurnOf(loc[q].hist0, loc[p].user_query)
    /\ lastSaver[loc[q].session_id] = q
    /\ loc[q].session_id \in DOMAIN redis

\* C9: no lock serializes the calls on a session: when two calls raced as
\* above, the history in Redis holds the turn of the call that wrote there
\* last and not the turn of the other (last write wins), and the history in
\* the cache holds the turn of one of the two calls only.
C9_LastWriteWins ==
    \A p, q \in Procs :
        Raced(p, q) =>
            /\ HasTurnOf(DurableHistory(loc[q].session_id), loc[q].user_query)
            /\ ~HasTurnOf(DurableHistory(loc[q].session_id), loc[p].user_query)
            /\ loc[q].session_id \in DOMAIN active_sessions =>
                  (HasTurnOf(CachedHistory(loc[q].session_id), loc[q].user_query)
                   # HasTurnOf(CachedHistory(loc[q].session_id), loc[p].user_query))

C9_LostUpdate == \E p, q \in Procs : Raced(p, q)

\* C10: the result of a process_query call on a session that is in neither
\* tier differs from the result of every successful call.
C10_NotFoundIsDistinct ==
    \A p, q \in Procs :
        (/\ pc[p] = "done" /\ loc[p].outcome = "not_found"
         /\ pc[q] = "done" /\ loc[q].outcome = "success") =>
            loc[p].result # loc[q].result

\* C11: the id a create_session call returns was returned by no earlier
\* create_session call.
C11_FreshSessionId == \A k \in SessionIds : Len(created[k]) <= 1

\* C12: a process_query call whose model calls all returned, each tool-use
\* response asking for at least one tool, ends on a plain-text response:
\* it made one model call more than it ran tool rounds, and it returns the
\* text of its last response.
C12_RoundsThenText ==
    \A p \in Procs :
        (/\ pc[p] = "done"
         /\ loc[p].caller = "process_query"
         /\ loc[p].outcome = "success"
         /\ ~(loc[p].current_response.stopReason = "tool_use"
              /\ loc[p].tool_calls = <<>>)) =>
            /\ loc[p].current_response.stopReason = "end_turn"
            /\ loc[p].model_calls = loc[p].rounds + 1
            /\ loc[p].result[1] =
                   ResponseText(loc[p].current_response.message.content)

\* a get_session call for id k has just returned None after a durable read
LoadedNothing(p, k) ==
    /\ pc[p] = "got_session"
    /\ loc[p].session_id = k
    /\ loc[p].context = None
    /\ loc[p].redis_reads = << <<>> >>

\* C13: once close_session(id) has returned, and until the id is written
\* again, the id is in neither the cache nor Redis, and a get_session on it
\* returns None.
C13_ClosedIsGone ==
    \A k \in SessionIds :
        closes[k] >= 1 =>
            /\ k \notin DOMAIN active_sessions
            /\ k \notin DOMAIN redis
            /\ \A p \in Procs :
                  (pc[p] = "got_session" /\ loc[p].session_id = k)
                      => loc[p].context = None

C13_LoadAfterClose ==
    \E k \in SessionIds, p \in Procs :
        /\ created[k] # <<>>
        /\ closes[k] = 1
        /\ LoadedNothing(p, k)

\* C14: close_session can be called again, and on an id that is in neither
\* tier: such a call changes nothing in the cache or in Redis, and after a
\* second close the id is in neither tier and get_session returns None.
C14_CloseIdempotent ==
    /\ [](\A k \in SessionIds :
            /\ (Quiet /\ closes[k] < MaxCloses) => ENABLED close_session(k)
            /\ closes[k] = MaxCloses =>
                  /\ k \notin Stored
                  /\ \A p \in Procs :
                        (pc[p] = "got_session" /\ loc[p].session_id = k)
                            => loc[p].context = None)
    /\ [][\A k \in SessionIds :
            ((closes[k] >= 1 \/ k \notin Stored) /\ close_session(k))
                => UNCHANGED storeVars]_vars

C14_ClosedTwice ==
    \E k \in SessionIds, j \in SessionIds, p \in Procs :
        /\ j # k
        /\ created[k] # <<>>
        /\ closes[k] = MaxCloses
        /\ LoadedNothing(p, k)
        /\ j \in DOMAIN active_sessions /\ j \in DOMAIN redis

\* the record of a session: its subject, seed context and history
Record(context) ==
    [ticker |-> context.ticker,
     current_analysis |-> context.current_analysis,
     conversation_history |-> context.conversation_history]

\* C15: whenever no call is in progress, a session that is in the cache and
\* in Redis has the same record in both.
C15_TiersAgree ==
    \A k \in SessionIds :
        (Quiet /\ k \in DOMAIN active_sessions /\ k \in DOMAIN redis) =>
            Record(heap[active_sessions[k]]) = Record(json_loads(redis[k].data))

\* C16: a get_session that finds a session, in the cache or in Redis,
\* returns the ticker and the current_analysis that were passed to the
\* create_session call that made it.
C16_LoadReturnsWhatWasCreated ==
    \A p \in Procs :
        (/\ pc[p] = "got_session"
         /\ loc[p].caller = "get_session"
         /\ loc[p].context # None
         /\ created[loc[p].session_id] # <<>>) =>
            LET args == created[loc[p].session_id]
                                [Len(created[loc[p].session_id])]
            IN  /\ heap[loc[p].context].ticker = args.ticker
                /\ heap[loc[p].context].current_analysis = args.current_analysis

\* C17: a get_session call that found the id in the cache returns the
\* cache entry and has not read Redis; one that did not has read Redis
\* once; when the read gave a record the call has put it in the cache and
\* returns it; the call returns None only when the cache did not hold the
\* id and Redis has no live key for it.
C17_CacheThenRedis ==
    \A p \in Procs :
        pc[p] = "got_session" =>
            LET l == loc[p]
                k == l.session_id
            IN  /\ l.cache_hit =>
                      /\ l.redis_reads = <<>>
                      /\ l.context # None
                      /\ k \in DOMAIN active_sessions
                      /\ active_sessions[k] = l.context
                /\ ~l.cache_hit => Len(l.redis_reads) = 1
                /\ (~l.cache_hit /\ l.redis_reads # << <<>> >>) =>
                      /\ l.context # None
                      /\ k \in DOMAIN active_sessions
                      /\ active_sessions[k] = l.context
                      /\ heap[l.context] = json_loads(l.redis_reads[1][1])
                      /\ k \in DOMAIN redis
                      /\ heap[l.context] = json_loads(redis[k].data)
                /\ (~l.cache_hit /\ l.redis_reads = << <<>> >>) =>
                      /\ l.context = None
                      /\ k \notin DOMAIN active_sessions
                      /\ k \notin DOMAIN redis \/ clock >= redis[k].expires

C17_ServedByRedis ==
    \E p \in Procs :
        /\ pc[p] = "got_session"
        /\ ~loc[p].cache_hit
        /\ loc[p].redis_reads # << <<>> >>
        /\ loc[p].context # None
        /\ active_sessions[loc[p].session_id] = loc[p].context

\* the calls of the batch of thread p in state st
InState(p, st) == {i \in DOMAIN loc[p].futures : loc[p].futures[i].state = st}

\* C18: at most max_workers calls of a batch execute at a time; every
\* request of the batch has its future; a queued call can start as soon as
\* fewer than max_workers calls execute, and is cancelled only by the batch
\* timeout.
C18_PoolBounded ==
    \A p \in Procs :
        /\ Cardinality(InState(p, "running")) <= max_workers
        /\ Len(loc[p].futures) = Len(loc[p].tool_calls)
        /\ InState(p, "cancelled") # {} => loc[p].timed_out
        /\ (/\ pc[p] = "as_completed"
            /\ InState(p, "pending") # {}
            /\ Cardinality(InState(p, "running")) < max_workers) =>
                \E i \in InState(p, "pending") : ENABLED ToolStart(p, i)

C18_QueuedCallStarted ==
    \E p \in Procs :
        /\ max_workers = 1
        /\ Len(loc[p].futures) = 2
        /\ loc[p].futures[1].state = "returned"
        /\ loc[p].futures[2].state = "running"

\* C19: the tool calls executing at a time, over all the converse calls in
\* progress, are at most max_workers.
C19_OnePoolForAll ==
    Cardinality({<<p, i>> \in Procs \X (1..MaxBatch) :
                    i \in InState(p, "running")}) <= max_workers

\* a message as converse sends it: one text block
TextMessage(role, text) == [role |-> role, content |-> <<[text |-> text]>>]

\* C20: at the first model call of a process_query call the system text is
\* the one built from current_analysis, and the messages are, for every
\* turn of the history in order, its user message then its assistant
\* message, followed by the new query as the last message.
C20_FirstCallMessages ==
    \A p \in Procs :
        (/\ pc[p] = "ask_model"
         /\ loc[p].caller = "process_query"
         /\ loc[p].model_calls = 0) =>
            LET l == loc[p]
                h == l.hist0
                msgs == l.formatted_messages
            IN  /\ l.system_message =
                      << <<"system", heap[l.context].current_analysis>> >>
                /\ Len(msgs) = 2 * Len(h) + 1
                /\ \A n \in 1..Len(h) :
                      /\ msgs[2 * n - 1] = TextMessage("user", h[n].user_message)
                      /\ msgs[2 * n] =
                            TextMessage("assistant", h[n].assistant_message)
                /\ msgs[Len(msgs)] = TextMessage("user", l.user_query)

C20_ThreePriorTurns ==
    \E p \in Procs :
        /\ pc[p] = "ask_model"
        /\ loc[p].caller = "process_query"
        /\ loc[p].model_calls = 0
        /\ Len(loc[p].hist0) = MaxHistory
        /\ loc[p].hist0[1] # loc[p].hist0[2]
        /\ Len(loc[p].formatted_messages) = 2 * MaxHistory + 1

\* thread p has ended a tool round: the model asked for tools, they were
\* submitted, and the pool has been left
RoundEnded(p) ==
    /\ pc[p] \in {"ask_model", "after_converse", "done"}
    /\ loc[p].rounds > 0
    /\ ~loc[p].failed
    /\ loc[p].current_response.stopReason = "tool_use"
    /\ loc[p].tool_calls # <<>>

\* C21: when a tool round has ended the message list is the list of the
\* model call before it, then the tool request message of the model, then
\* one user message with the results of that batch and of no other, and
\* the next model call is about to be made with it.
C21_RoundAddsTwoMessages ==
    \A p \in Procs :
        RoundEnded(p) =>
            LET l == loc[p] IN
            /\ pc[p] = "ask_model"
            /\ l.formatted_messages =
                   l.sent_messages
                   \o <<l.current_response.message,
                        [role |-> "user", content |-> l.tool_results]>>
            /\ l.tool_results # <<>>
            /\ \A j \in DOMAIN l.tool_results :
                   l.tool_results[j].toolResult.toolUseId \in RequestedIds(l)

\* C22: a process_query call ends with a returned pair of a text and a
\* tool call list, and with no exception.
C22_ProcessNeverRaises ==
    \A p \in Procs :
        (pc[p] = "done" /\ loc[p].caller = "process_query") =>
            /\ loc[p].outcome # "raised"
            /\ Len(loc[p].result) = 2

\* the error payloads converse writes for a call that raised or timed out
ErrorPayloads == {TimeoutPayload, "{error: Tool execution failed: boom}"}

\* C23: when a tool round has ended, every call of the batch that raised
\* or was timed out before it started has a result under its toolUseId
\* that holds an error payload, and the model is about to be called again.
C23_FailedCallsReported ==
    \A p \in Procs :
        RoundEnded(p) =>
            \A i \in DOMAIN loc[p].futures :
                loc[p].futures[i].state \in {"raised", "cancelled"} =>
                    /\ pc[p] = "ask_model"
                    /\ \E j \in DOMAIN loc[p].tool_results :
                          LET r == loc[p].tool_results[j].toolResult IN
                          /\ r.toolUseId = loc[p].tool_calls[i].tool_id
                          /\ r.content[1].text \in ErrorPayloads

\* C24: under fairness a process_query call that has started returns, and
\* up to then every tool-use response of the model has caused one more
\* round of the loop, however many there were.
C24_ProcessReturns ==
    /\ (pc[1] = "get_session") ~> (pc[1] = "done")
    /\ [](loc[1].model_calls > 0 =>
            loc[1].rounds = loc[1].model_calls -
                (IF loc[1].failed \/ loc[1].current_response.stopReason # "tool_use"
                 THEN 1 ELSE 0))

C24_ReturnedAfterAllRounds ==
    /\ pc[1] = "done"
    /\ loc[1].outcome = "success"
    /\ loc[1].rounds = MaxRounds
    /\ loc[1].model_calls = MaxRounds + 1

LastOf(history) == history[Len(history)]

\* C25: the tool log process_query returns has one entry for each toolUse
\* block the model sent in any round of the call, in the order they were
\* sent, and after a call that succeeded the last turn of the stored history
\* holds the query, the returned text and that log.
C25_LogIsTheRequests ==
    \A p \in Procs :
        (pc[p] = "done" /\ loc[p].caller = "process_query") =>
            LET l == loc[p]
                log == l.result[2]
            IN  /\ Len(log) = Len(l.requested)
                /\ \A i \in DOMAIN log :
                      /\ log[i].name = l.requested[i].name
                      /\ log[i].parameters = tool_parameters(l.requested[i].input)
                /\ l.outcome = "success" =>
                      /\ l.session_id \in DOMAIN active_sessions
                      /\ l.session_id \in DOMAIN redis
                      /\ \A history \in {CachedHistory(l.session_id),
                                          DurableHistory(l.session_id)} :
                            /\ history # <<>>
                            /\ LastOf(history).user_message = l.user_query
                            /\ LastOf(history).assistant_message = l.result[1]
                            /\ LastOf(history).tool_calls = log

C25_LogOfSeveralRounds ==
    \E p \in Procs :
        /\ pc[p] = "done"
        /\ loc[p].outcome = "success"
        /\ loc[p].rounds > 1
        /\ Len(loc[p].result[2]) > MaxBatch
        /\ Len(DurableHistory(loc[p].session_id)) = 1

\* the input of a toolUse block is a string that json.loads rejects
BadInput(tool_use) ==
    tool_use.input.kind = "str" /\ parse_json(tool_use.input.text) = <<>>

\* C26: a tool request whose input is a string that is not JSON is put in
\* the batch with empty parameters, is logged with parameters {} and is
\* submitted to the pool, and the other requests of the message are in the
\* batch with their own parameters.
C26_BadInputBecomesEmpty ==
    \A p \in Procs :
        LET l == loc[p] IN
        \A i \in DOMAIN l.tool_calls :
            LET tool_use == l.requested[l.base + i] IN
            /\ l.tool_calls[i].name = tool_use.name
            /\ l.tool_calls[i].tool_id = tool_use.toolUseId
            /\ i \in DOMAIN l.futures
            /\ Len(l.requested) = l.base + Len(l.tool_calls)
            /\ LogEntry(l, i).name = tool_use.name
            /\ IF BadInput(tool_use)
               THEN /\ l.tool_calls[i].params = {}
                    /\ LogEntry(l, i).parameters = {}
               ELSE /\ l.tool_calls[i].params = {<<"ticker", "AAPL">>}
                    /\ LogEntry(l, i).parameters = {<<"ticker", "AAPL">>}

C26_BadInputCallReturned ==
    \E p \in Procs :
        /\ pc[p] = "done"
        /\ loc[p].outcome = "success"
        /\ loc[p].model_calls = 2
        /\ Len(loc[p].tool_calls) = 2
        /\ BadInput(loc[p].requested[1])
        /\ ~BadInput(loc[p].requested[2])
        /\ loc[p].futures[1].state = "returned"
        /\ loc[p].yielded = {1, 2}
        /\ loc[p].result[2][1].parameters = {}

\* the fields of a context other than its history, and what the latest
\* create_session call for the id stored in them (lines 44-53)
Fields(context) ==
    [session_id |-> context.session_id,
     ticker |-> context.ticker,
     created_at |-> context.created_at,
     current_analysis |-> context.current_analysis]
CreatedFields(k) ==
    LET args == created[k][Len(created[k])] IN
    [session_id |-> k,
     ticker |-> Upper(args.ticker),
     created_at |-> Iso(args.at),
     current_analysis |-> args.current_analysis]

\* C27: whatever process_query calls have run, the session_id, ticker,
\* created_at and current_analysis of a session, in the cache and in the
\* record Redis holds, are those create_session stored.
C27_ProcessKeepsFields ==
    \A k \in SessionIds :
        /\ k \in DOMAIN active_sessions =>
              Fields(heap[active_sessions[k]]) = CreatedFields(k)
        /\ k \in DOMAIN redis => Fields(redis[k].data) = CreatedFields(k)

C27_SavedAfterReload ==
    \E p \in Procs :
        /\ pc[p] = "done"
        /\ loc[p].outcome = "success"
        /\ ~loc[p].cache_hit
        /\ loc[p].session_id \in DOMAIN active_sessions
        /\ loc[p].session_id \in DOMAIN redis
        /\ Len(DurableHistory(loc[p].session_id)) > 0
        /\ Len(CachedHistory(loc[p].session_id)) > 0

\* C28: a key in Redis expires SESSION_TTL seconds after the latest write
\* of its session, by create_session or by _update_session, whatever reads
\* there were since; once that time has come the key is gone.
C28_ExpiryFromLastWrite ==
    \A k \in SessionIds :
        /\ k \in DOMAIN redis =>
              /\ redis[k].expires = written[k] + SESSION_TTL
              /\ clock < redis[k].expires
        /\ (written[k] >= 0 /\ clock >= written[k] + SESSION_TTL) =>
              /\ k \notin DOMAIN redis
              /\ RedisGet(k) = <<>>

C28_ReadAfterRewrite ==
    \E p \in Procs :
        LET k == loc[p].session_id IN
        /\ pc[p] = "got_session"
        /\ loc[p].redis_reads # <<>>
        /\ loc[p].context # None
        /\ created[k] # <<>>
        /\ created[k][Len(created[k])].at = 0
        /\ clock >= SESSION_TTL
        /\ written[k] > 0
        /\ clock > written[k]
        /\ redis[k].expires = written[k] + SESSION_TTL

\* what the cache and Redis hold for an id (<<>>: nothing)
CacheEntry(as, h, k) == IF k \in DOMAIN as THEN <<h[as[k]]>> ELSE <<>>
DurableEntry(rd, k) == IF k \in DOMAIN rd THEN <<rd[k]>> ELSE <<>>

\* C29: a step changes what the cache or Redis holds for an id only when
\* it is a step of a call on that id: of a process_query or get_session
\* call whose session_id it is, of close_session or create_session for it,
\* or the expiry of its key.
C29_OtherSessionsUntouched ==
    [][\A j \in SessionIds :
          (\/ CacheEntry(active_sessions', heap', j)
                 # CacheEntry(active_sessions, heap, j)
           \/ DurableEntry(redis', j) # DurableEntry(redis, j)) =>
              \/ \E p \in Procs : loc[p].session_id = j /\ pc'[p] # pc[p]
              \/ closes'[j] = closes[j] + 1
              \/ created'[j] # created[j]
              \/ clock' # clock]_vars

C29_BothSessionsServed ==
    \E p, q \in Procs :
        LET k == loc[p].session_id
            j == loc[q].session_id
        IN  /\ pc[p] = "done" /\ loc[p].outcome = "success"
            /\ pc[q] = "done" /\ loc[q].outcome = "success"
            /\ j # k
            /\ {j, k} \subseteq DOMAIN active_sessions \cap DOMAIN redis
            /\ \A history \in {CachedHistory(k), DurableHistory(k)} :
                  HasTurnOf(history, loc[p].user_query)
                  /\ ~HasTurnOf(history, loc[q].user_query)
            /\ \A history \in {CachedHistory(j), DurableHistory(j)} :
                  HasTurnOf(history, loc[q].user_query)
                  /\ ~HasTurnOf(history, loc[p].user_query)

\* the session a process_query call loaded was closed since, and the call
\* is about to save it
ClosedInFlight(p) ==
    /\ pc[p] = "update_session"
    /\ closes[loc[p].session_id] > 0
    /\ loc[p].session_id \notin Stored

\* C30: when a session was closed while a process_query call on it was
\* running, the step with which that call goes on leaves the session out
\* of the cache and out of Redis.
C30_ClosedStaysClosed ==
    [][\A p \in Procs :
          (ClosedInFlight(p) /\ pc'[p] # pc[p]) =>
              /\ loc[p].session_id \notin DOMAIN active_sessions'
              /\ loc[p].session_id \notin DOMAIN redis']_vars

\* C31: every session in the cache has been written to Redis at some time,
\* and while no call is running a cached history holds no turn that the
\* history in Redis lacks.
C31_CacheFollowsRedis ==
    \A k \in DOMAIN active_sessions :
        /\ written[k] >= 0
        /\ (Quiet /\ k \in DOMAIN redis) =>
              Range(CachedHistory(k)) \subseteq Range(DurableHistory(k))

\* C32: outside the pool's with block, that is when the model is called
\* again, when converse returns and after it, no call of the batch is
\* running or still to be started, whether the batch timed out or not.
C32_NoCallOutlivesBatch ==
    \A p \in Procs :
        pc[p] \notin {"as_completed", "shutdown"} =>
            /\ Running(loc[p]) = {}
            /\ Done(loc[p]) = DOMAIN loc[p].futures

C32_WaitedAfterTimeout ==
    \E p \in Procs :
        /\ pc[p] = "ask_model"
        /\ loc[p].timed_out
        /\ \E i \in DOMAIN loc[p].futures :
              /\ i \notin loc[p].yielded
              /\ loc[p].futures[i].state = "returned"
              /\ HasTimeoutResult(loc[p], i)

\* C33: a process_query call that finds its session_id neither in the
\* cache nor in Redis returns having called neither the model nor a tool,
\* and none of its steps changes the cache, the context dicts or Redis.
C33_NotFoundTouchesNothing ==
    /\ [](\A p \in Procs :
            (pc[p] = "done" /\ loc[p].outcome = "not_found"
                            /\ loc[p].caller = "process_query") =>
                /\ loc[p].model_calls = 0
                /\ loc[p].requested = <<>>
                /\ loc[p].futures = <<>>
                /\ loc[p].result = <<"Session not found", <<>>>>)
    /\ [][\A p \in Procs :
             (/\ loc[p].caller = "process_query"
              /\ pc[p] \in {"get_session", "redis_get", "got_session"}
              /\ pc'[p] \in {"redis_get", "got_session", "done"}
              /\ pc'[p] # pc[p]
              /\ loc'[p].context = None) =>
                 /\ active_sessions' = active_sessions
                 /\ heap' = heap
                 /\ redis' = redis]_vars

C33_GoneSessionNotFound ==
    \E p \in Procs :
        /\ pc[p] = "done"
        /\ loc[p].caller = "process_query"
        /\ loc[p].outcome = "not_found"
        /\ created[loc[p].session_id] # <<>>
        /\ loc[p].redis_reads = << <<>> >>
        /\ loc[p].session_id \notin Stored

\* the latest response of the model has stop reason tool_use and no
\* toolUse block
EmptyRequest(l) ==
    /\ l.current_response.stopReason = "tool_use"
    /\ \A i \in DOMAIN l.current_response.message.content :
          ~IsToolUse(l.current_response.message.content[i])
    /\ ~l.failed

\* the texts of the first n blocks of a content list of text blocks
RECURSIVE Joined(_, _)
Joined(content, n) ==
    IF n = 0 THEN "" ELSE Joined(content, n - 1) \o content[n].text

\* C34: once the model has answered with stop reason tool_use and no
\* toolUse block, converse is past its loop without a tool call submitted
\* and without another model call, and what it returns is the texts of that
\* response, joined, with the tool calls made before.
C34_EmptyRequestEndsCall ==
    \A p \in Procs :
        EmptyRequest(loc[p]) =>
            LET l == loc[p]
                content == l.current_response.message.content
            IN  /\ pc[p] \in {"after_converse", "done"}
                /\ l.futures = <<>>
                /\ l.tool_results = <<>>
                /\ l.model_calls = l.rounds
                /\ l.response = <<Joined(content, Len(content)), l.tool_calls_made>>
                /\ pc[p] = "done" => l.result = l.response

C34_EmptyRequestAfterARound ==
    \E p \in Procs :
        /\ pc[p] = "done"
        /\ EmptyRequest(loc[p])
        /\ loc[p].rounds = 2
        /\ loc[p].tool_calls_made # <<>>
        /\ loc[p].result[1] = "part one part two"

\* the strings execute_tool returns in the model
ToolStrings == {"data", "{error: Tool execution failed: boom}",
                "{error: Unknown tool: get_news}"}

=============================================================================
